---- MODULE Spec2Model ----
(***************************************************************************)
(* Model of catboost/libs/quantized_pool/loader.cpp: the sequential chunk  *)
(* evictor (TSequentialChunkEvictor), the chunk gatherer                   *)
(* (GatherAndSortChunks), the column dispatcher (AddChunk) and the loader  *)
(* (TCBQuantizedDataLoader: constructor and Do).                           *)
(*                                                                         *)
(* Addresses are byte addresses; nullptr is 0 and every chunk payload      *)
(* lives at an address >= 1.  The model is the non-Windows build: the      *)
(* MadviseEvict call of MaybeEvict is compiled in (loader.cpp:131-134).    *)
(***************************************************************************)
EXTENDS Integers, Sequences, FiniteSets, TLC

VARIABLES
    evictor,        \* TSequentialChunkEvictor: MinSizeInBytesToEvict_, Evicted_, Data_, Size_
    advised,        \* the MadviseEvict(Data_, Size_) calls made so far, in order
    last,           \* the last call made on the evictor, with the state it found
    hist,           \* history of the calls made on a free-standing evictor
    args,           \* TDatasetLoaderPullArgs, with the pool stored at args.PoolPath
    QuantizedPool,  \* TCBQuantizedDataLoader::QuantizedPool
    pc,             \* position of the loader: constructor, statements of Do, end
    ObjectCount,    \* TCBQuantizedDataLoader::ObjectCount
    IsFeatureIgnored, \* TCBQuantizedDataLoader::IsFeatureIgnored
    chunkRefs,      \* Do: const auto chunkRefs = GatherAndSortChunks(QuantizedPool)
    pos,            \* Do: index of the next entry of chunkRefs (1-based)
    trace,          \* calls made by Do, in order: visitor calls and internal steps
    outcomes,       \* per processed entry: what the loop body did with it
    error           \* the exception that ended the load, "none" if none

evictorVars == <<evictor, advised, last, hist>>
loaderVars == <<args, QuantizedPool, pc, ObjectCount, IsFeatureIgnored, chunkRefs, pos, trace,
                outcomes, error>>
vars == <<evictor, advised, last, hist, args, QuantizedPool, pc, ObjectCount, IsFeatureIgnored,
          chunkRefs, pos, trace, outcomes, error>>

---------------------------------------------------------------------------
(* Bounds of the model *)

\* a free-standing evictor is driven for at most MaxCalls calls
MaxCalls == 5
\* chunks pushed to a free-standing evictor start at 1..MaxAddr
MaxAddr == 3
\* ... and have 0..MaxSize bytes
MaxSize == 1
\* a free-standing evictor is built with a threshold in 0..MaxThreshold
MaxThreshold == 1

---------------------------------------------------------------------------
(* TSequentialChunkEvictor *)

NullPtr == 0

\* A size_t document count is held as [hi, lo], its value being hi * 2^16 + lo with
\* lo < 2^16, so that counts beyond Max<ui32>() = 2^32 - 1 can be written down.
Count(hi, lo) == [hi |-> hi, lo |-> lo]

\* QuantizedPool.DocumentCount > 0
CountPositive(n) == n.hi > 0 \/ n.lo > 0

\* QuantizedPool.DocumentCount <= (size_t)Max<ui32>()
CountFitsUi32Loose(n) == n.hi <= 65536
CountFitsUi32(n) == n.hi < 65536

\* (ui32)QuantizedPool.DocumentCount
CastUi32(n) == [hi |-> n.hi % 65536, lo |-> n.lo]

\* the single log record of "no call yet"
NoCall == [op |-> "none"]

TSequentialChunkEvictor(minSizeInBytesToEvict) ==
    [MinSizeInBytesToEvict_ |-> minSizeInBytesToEvict,
     Evicted_ |-> FALSE,
     Data_ |-> NullPtr,
     Size_ |-> 0]

\* CB_ENSURE(Data_ + Size_ <= data, ...)
PushEnsureStrict(ev, data) == ev.Data_ + ev.Size_ < data
PushEnsure(ev, data) == ev.Data_ + ev.Size_ <= data

\* the three branches that follow the CB_ENSURE
PushRangeResetToChunk(ev, data, size) ==
    IF ev.Data_ = NullPtr
    THEN [ev EXCEPT !.Data_ = data, !.Size_ = size]
    ELSE IF ev.Evicted_
         THEN [ev EXCEPT !.Size_ = size, !.Data_ = data]
         ELSE [ev EXCEPT !.Size_ = data - ev.Data_ + size]
PushRangeSkippingGap(ev, data, size) ==
    IF ev.Data_ = NullPtr
    THEN [ev EXCEPT !.Data_ = data, !.Size_ = size]
    ELSE IF ev.Evicted_
         THEN LET nextData == ev.Data_ + ev.Size_
              IN [ev EXCEPT !.Size_ = data - nextData + size, !.Data_ = nextData]
         ELSE [ev EXCEPT !.Size_ = ev.Size_ + size]
PushRange(ev, data, size) ==
    IF ev.Data_ = NullPtr
    THEN [ev EXCEPT !.Data_ = data, !.Size_ = size]
    ELSE IF ev.Evicted_
         THEN LET nextData == ev.Data_ + ev.Size_
              IN [ev EXCEPT !.Size_ = data - nextData + size, !.Data_ = nextData]
         ELSE [ev EXCEPT !.Size_ = data - ev.Data_ + size]

\* Push: the Y_DEFER { Evicted_ = false; } runs on every exit, the throwing one too
Push(ev, data, size) ==
    LET ok == PushEnsure(ev, data)
        after == IF ok THEN PushRange(ev, data, size) ELSE ev
    IN [ev |-> [after EXCEPT !.Evicted_ = FALSE], failed |-> ~ok]

\* if (Evicted_ || !force && Size_ < MinSizeInBytesToEvict_) return;
MaybeEvictReturnsOnEmpty(ev, force) ==
    ev.Evicted_ \/ (~force /\ ev.Size_ < ev.MinSizeInBytesToEvict_) \/ ev.Data_ = NullPtr
MaybeEvictReturnsAtThreshold(ev, force) ==
    ev.Evicted_ \/ (~force /\ ev.Size_ <= ev.MinSizeInBytesToEvict_)
MaybeEvictReturns(ev, force) ==
    ev.Evicted_ \/ (~force /\ ev.Size_ < ev.MinSizeInBytesToEvict_)

\* MaybeEvict: MadviseEvict(Data_, Size_) inside try/catch, then Evicted_ = true
MaybeEvict(ev, force) ==
    IF MaybeEvictReturns(ev, force)
    THEN [ev |-> ev, issued |-> FALSE]
    ELSE [ev |-> [ev EXCEPT !.Evicted_ = TRUE], issued |-> TRUE]

\* the record MaybeEvict leaves in the log of advisories; madviseOk is whether
\* MadviseEvict returned (TRUE) or threw and was caught (FALSE)
Advice(ev, madviseOk) == [Data |-> ev.Data_, Size |-> ev.Size_, ok |-> madviseOk]

---------------------------------------------------------------------------
(* A free-standing evictor under any sequence of calls *)

\* calls: calls made; pushes: pushes that returned; pushFailures: pushes that threw;
\* disciplined: every pushed chunk so far started at or after the end of the chunk
\* pushed before it (prevData + prevSize); sincePush: advisories issued by
\* MaybeEvict(false) since the last push that returned; betweenPushes: the largest
\* such count between two consecutive pushes that returned
NoHist == [calls |-> 0, pushes |-> 0, pushFailures |-> 0, disciplined |-> TRUE,
           prevData |-> NullPtr, prevSize |-> 0, sincePush |-> 0, betweenPushes |-> 0]

LoaderIdle ==
    /\ args = <<>>
    /\ QuantizedPool = <<>>
    /\ pc = "idle"
    /\ ObjectCount = Count(0, 0)
    /\ IsFeatureIgnored = <<>>
    /\ chunkRefs = <<>>
    /\ pos = 0
    /\ trace = <<>>
    /\ outcomes = <<>>
    /\ error = "none"

EvInit ==
    /\ \E minSize \in 0..MaxThreshold : evictor = TSequentialChunkEvictor(minSize)
    /\ advised = <<>>
    /\ last = NoCall
    /\ hist = NoHist
    /\ LoaderIdle

EvPush ==
    /\ hist.calls < MaxCalls
    /\ \E data \in 1..MaxAddr, size \in 0..MaxSize :
        LET r == Push(evictor, data, size)
        IN /\ evictor' = r.ev
           /\ last' = [op |-> "Push", data |-> data, size |-> size, pre |-> evictor,
                       failed |-> r.failed]
           /\ hist' = [calls |-> hist.calls + 1,
                       pushes |-> IF r.failed THEN hist.pushes ELSE hist.pushes + 1,
                       pushFailures |-> IF r.failed THEN hist.pushFailures + 1
                                        ELSE hist.pushFailures,
                       disciplined |-> /\ hist.disciplined
                                       /\ data >= hist.prevData + hist.prevSize,
                       prevData |-> data,
                       prevSize |-> size,
                       sincePush |-> IF r.failed THEN hist.sincePush ELSE 0,
                       betweenPushes |->
                           IF ~r.failed /\ hist.pushes >= 1
                                        /\ hist.sincePush > hist.betweenPushes
                           THEN hist.sincePush ELSE hist.betweenPushes]
    /\ UNCHANGED <<advised>>
    /\ UNCHANGED loaderVars

EvMaybeEvict ==
    /\ hist.calls < MaxCalls
    /\ \E force \in BOOLEAN, madviseOk \in BOOLEAN :
        LET r == MaybeEvict(evictor, force)
        IN /\ r.issued \/ madviseOk
           /\ evictor' = r.ev
           /\ advised' = IF r.issued THEN Append(advised, Advice(evictor, madviseOk))
                         ELSE advised
           /\ last' = [op |-> "MaybeEvict", force |-> force, pre |-> evictor,
                       issued |-> r.issued]
           /\ hist' = [hist EXCEPT !.calls = @ + 1,
                                   !.sincePush = IF r.issued /\ ~force THEN @ + 1
                                                 ELSE @]
    /\ UNCHANGED loaderVars

EvNext == EvPush \/ EvMaybeEvict

EvSpec == EvInit /\ [][EvNext]_vars

---------------------------------------------------------------------------
(* TQuantizedPool and the chunks it describes *)

\* EColumn, the column types AddChunk switches over
EColumn == {"Num", "Categ", "Label", "Auxiliary", "Baseline", "Weight", "SampleId",
            "GroupId", "SubgroupId", "Timestamp", "Sparse", "Prediction",
            "GroupWeight", "Text"}

\* static_cast<ui32>(-1), the value of an unset string pseudo-column index, written
\* as the -1 it is cast from (it is only ever compared for equality)
NoIndex == -1

\* TSequentialChunkEvictor evictor(1ULL << 24)
MinSizeInBytesToEvict == 16777216

\* TQuantizedPool(): the value Do leaves in QuantizedPool when it releases the pool
EmptyPool ==
    [DocumentCount |-> Count(0, 0),
     ColumnIndexToLocalIndex |-> <<>>,
     Chunks |-> <<>>,
     ColumnTypes |-> <<>>,
     StringDocIdLocalIndex |-> NoIndex,
     StringGroupIdLocalIndex |-> NoIndex,
     StringSubgroupIdLocalIndex |-> NoIndex,
     HasStringColumns |-> FALSE,
     ColumnsDumpEmpty |-> TRUE,
     IgnoredFlatIndices |-> <<>>]

\* const auto* p = map.FindPtr(key): <<>> is nullptr, <<v>> points to v
FindPtr(map, key) == IF key \in DOMAIN map THEN <<map[key]>> ELSE <<>>

\* the columns of the pool of the given types, as a set of column indices
ColumnsOfType(p, types) ==
    {c \in DOMAIN p.ColumnIndexToLocalIndex :
        p.ColumnTypes[p.ColumnIndexToLocalIndex[c]] \in types}

\* GetColumnIndexToFlatIndexMap: feature columns numbered in column order
GetColumnIndexToFlatIndexMap(p) ==
    LET features == ColumnsOfType(p, {"Num", "Categ"})
    IN [c \in features |-> Cardinality({d \in features : d < c})]

\* GetColumnIndexToBaselineIndexMap: baseline columns numbered in column order
GetColumnIndexToBaselineIndexMap(p) ==
    LET baselines == ColumnsOfType(p, {"Baseline"})
    IN [c \in baselines |-> Cardinality({d \in baselines : d < c})]

\* GetDataMetaInfo(...).GetFeatureCount()
GetFeatureCount(p) == Cardinality(ColumnsOfType(p, {"Num", "Categ"}))

\* chunkRef.Description is a pointer into pool.Chunks: <<local index, position>>
Deref(p, description) == p.Chunks[description[1]][description[2]]

---------------------------------------------------------------------------
(* GatherAndSortChunks *)

\* for (const auto& description : pool.Chunks[localIdx]) chunks.push_back({...})
RECURSIVE RefsOfSlot(_, _, _, _)
RefsOfSlot(p, columnIdx, localIdx, k) ==
    IF k > Len(p.Chunks[localIdx]) THEN <<>>
    ELSE <<[Description |-> <<localIdx, k>>, ColumnIndex |-> columnIdx,
            LocalIndex |-> localIdx]>>
         \o RefsOfSlot(p, columnIdx, localIdx, k + 1)

\* for (const auto [columnIdx, localIdx] : pool.ColumnIndexToLocalIndex): the map
\* is walked here in ascending column order; the walk order is erased by the sort
RECURSIVE GatherColumns(_, _)
GatherColumns(p, columns) ==
    IF columns = {} THEN <<>>
    ELSE LET columnIdx == CHOOSE c \in columns : \A d \in columns : c <= d
         IN RefsOfSlot(p, columnIdx, p.ColumnIndexToLocalIndex[columnIdx], 1)
            \o GatherColumns(p, columns \ {columnIdx})

\* const ui32 fakeIndices[] = {StringDocId..., StringGroupId..., StringSubgroupId...}
FakeIndices(p) ==
    <<p.StringDocIdLocalIndex, p.StringGroupIdLocalIndex, p.StringSubgroupIdLocalIndex>>

\* for (const auto fakeIdx : fakeIndices) { if (fakeIdx == -1) continue; ... }
RECURSIVE GatherFake(_, _)
GatherFake(p, i) ==
    IF i > Len(FakeIndices(p)) THEN <<>>
    ELSE (IF FakeIndices(p)[i] = NoIndex THEN <<>>
          ELSE RefsOfSlot(p, 0, FakeIndices(p)[i], 1))
         \o GatherFake(p, i + 1)

\* the comparator of the Sort: lhs...data() < rhs...data()
ChunkLessByDocumentOffset(p, lhs, rhs) ==
    Deref(p, lhs.Description).DocumentOffset < Deref(p, rhs.Description).DocumentOffset
ChunkLess(p, lhs, rhs) == Deref(p, lhs.Description).Data < Deref(p, rhs.Description).Data

\* Sort(chunks, cmp), as an insertion sort
RECURSIVE InsertSorted(_, _, _)
InsertSorted(p, sorted, ref) ==
    IF sorted = <<>> THEN <<ref>>
    ELSE IF ChunkLess(p, ref, Head(sorted)) THEN <<ref>> \o sorted
         ELSE <<Head(sorted)>> \o InsertSorted(p, Tail(sorted), ref)
RECURSIVE SortChunks(_, _)
SortChunks(p, chunks) ==
    IF chunks = <<>> THEN <<>>
    ELSE InsertSorted(p, SortChunks(p, Tail(chunks)), Head(chunks))

GatherAndSortChunks(p) ==
    SortChunks(p, GatherColumns(p, DOMAIN p.ColumnIndexToLocalIndex) \o GatherFake(p, 1))

---------------------------------------------------------------------------
(* AddChunk *)

\* a call on the visitor, or a step of Do that the order of the load is about
Call(name) ==
    [call |-> name, objectOffset |-> -1, flatFeatureIdx |-> -1, baselineIdx |-> -1,
     bitsPerDocument |-> -1, Data |-> NullPtr, elements |-> -1, issued |-> FALSE]

PartCallRoundedUp(name, chunk, elementSize) ==
    [Call(name) EXCEPT !.objectOffset = chunk.DocumentOffset,
                       !.Data = chunk.Data,
                       !.elements = (chunk.Size + elementSize - 1) \div elementSize]
PartCall(name, chunk, elementSize) ==
    [Call(name) EXCEPT !.objectOffset = chunk.DocumentOffset,
                       !.Data = chunk.Data,
                       !.elements = chunk.Size \div elementSize]

\* the calls of the visitor that deliver a part
PartCalls == {"AddFloatFeaturePart", "AddTargetPart", "AddBaselinePart", "AddWeightPart",
              "AddGroupWeightPart", "AddGroupIdPart", "AddSubgroupIdPart"}

\* AddQuantizedFeatureChunk: visitor->AddFloatFeaturePart(flatFeatureIdx, ...)
AddQuantizedFeatureChunk(chunk, flatFeatureIdx) ==
    [PartCall("AddFloatFeaturePart", chunk, 1) EXCEPT
        !.flatFeatureIdx = flatFeatureIdx,
        !.bitsPerDocument = chunk.BitsPerDocument]

\* AddChunk: the switch over columnType; thrown is the ythrow of the last cases
AddChunk(chunk, columnType, flatFeatureIdx, baselineIdx) ==
    CASE columnType = "Num" ->
            [thrown |-> FALSE, calls |-> <<AddQuantizedFeatureChunk(chunk, flatFeatureIdx[1])>>]
      [] columnType = "Label" ->
            [thrown |-> FALSE, calls |-> <<PartCall("AddTargetPart", chunk, 4)>>]
      [] columnType = "Baseline" ->
            [thrown |-> FALSE,
             calls |-> <<[PartCall("AddBaselinePart", chunk, 8) EXCEPT
                             !.baselineIdx = baselineIdx[1]]>>]
      [] columnType = "Weight" ->
            [thrown |-> FALSE, calls |-> <<PartCall("AddWeightPart", chunk, 4)>>]
      [] columnType = "GroupWeight" ->
            [thrown |-> FALSE, calls |-> <<PartCall("AddGroupWeightPart", chunk, 4)>>]
      [] columnType = "GroupId" ->
            [thrown |-> FALSE, calls |-> <<PartCall("AddGroupIdPart", chunk, 8)>>]
      [] columnType = "SubgroupId" ->
            [thrown |-> FALSE, calls |-> <<PartCall("AddSubgroupIdPart", chunk, 4)>>]
      [] OTHER ->
            [thrown |-> TRUE, calls |-> <<>>]

---------------------------------------------------------------------------
(* TCBQuantizedDataLoader: the constructor *)

\* CheckExists(path) for a path that is Inited()
PathOk(path) == path # "missing"

\* the CB_ENSUREs of the constructor up to GetDataMetaInfo, in order
ConstructorCheck(a) ==
    LET p == a.Pool
    IN CASE ~CountPositive(p.DocumentCount) -> "Pool is empty"
         [] ~CountFitsUi32(p.DocumentCount) -> "too many objects"
         [] ~PathOk(a.PairsPath) -> "PairsFilePath does not exist"
         [] ~PathOk(a.GroupWeightsPath) -> "GroupWeightsFilePath does not exist"
         [] ~PathOk(a.BaselinePath) -> "BaselineFilePath does not exist"
         [] ~(GetFeatureCount(p) > 0) -> "Pool should have at least one factor"
         [] OTHER -> "none"

\* allIgnoredFeatures: the caller's list with the pool's list appended
AllIgnoredFeaturesCallerOnly(a) == a.IgnoredFeatures
AllIgnoredFeatures(a) == a.IgnoredFeatures \o a.Pool.IgnoredFlatIndices

\* ProcessIgnoredFeaturesList: the mask over the features, set for the listed ones
ProcessIgnoredFeaturesList(allIgnoredFeatures, featureCount) ==
    [f \in 0..(featureCount - 1) |->
        \E i \in 1..Len(allIgnoredFeatures) : allIgnoredFeatures[i] = f]

\* ProcessIgnoredFeaturesList refuses a list that leaves no feature
AllFeaturesIgnored(mask) == \A f \in DOMAIN mask : mask[f]

---------------------------------------------------------------------------
(* TCBQuantizedDataLoader::Do: one entry of the loop *)

\* isStringColumn
IsStringColumn(p, localIdx) ==
    /\ p.HasStringColumns
    /\ \/ localIdx = p.StringDocIdLocalIndex
       \/ localIdx = p.StringGroupIdLocalIndex
       \/ localIdx = p.StringSubgroupIdLocalIndex

\* the CB_ENSURE on columnType
ColumnTypeEnsureWithoutCateg(columnType) ==
    columnType \in {"Num", "Baseline", "Label", "Weight", "GroupWeight",
                    "GroupId", "SubgroupId"}
ColumnTypeEnsure(columnType) ==
    columnType \in {"Num", "Baseline", "Label", "Categ", "Weight", "GroupWeight",
                    "GroupId", "SubgroupId"}

\* if (flatFeatureIdx && IsFeatureIgnored[*flatFeatureIdx]) continue;
SkipIgnored(mask, flatFeatureIdx) == flatFeatureIdx # <<>> /\ mask[flatFeatureIdx[1]]

\* the body of the loop after the push: what it does with the entry (kind), the
\* visitor calls it makes and whether it throws
ProcessChunkRef(p, mask, chunkRef) ==
    LET columnIdx == chunkRef.ColumnIndex
        localIdx == chunkRef.LocalIndex
        columnType == p.ColumnTypes[localIdx]
        flatFeatureIdx == FindPtr(GetColumnIndexToFlatIndexMap(p), columnIdx)
        baselineIdx == FindPtr(GetColumnIndexToBaselineIndexMap(p), columnIdx)
        added == AddChunk(Deref(p, chunkRef.Description), columnType, flatFeatureIdx,
                          baselineIdx)
    IN IF IsStringColumn(p, localIdx)
       THEN [kind |-> "string", columnType |-> "-", calls |-> <<>>, thrown |-> FALSE]
       ELSE IF columnType = "SampleId"
       THEN [kind |-> "sampleId", columnType |-> columnType, calls |-> <<>>,
             thrown |-> FALSE]
       ELSE IF ~ColumnTypeEnsure(columnType)
       THEN [kind |-> "ensureFailed", columnType |-> columnType, calls |-> <<>>,
             thrown |-> TRUE]
       ELSE IF SkipIgnored(mask, flatFeatureIdx)
       THEN [kind |-> "ignored", columnType |-> columnType, calls |-> <<>>,
             thrown |-> FALSE]
       ELSE [kind |-> "AddChunk", columnType |-> columnType, calls |-> added.calls,
             thrown |-> added.thrown]


---------------------------------------------------------------------------
(* The loads the model runs *)

\* the most chunks a pool holds
MaxChunks == 2

\* the address of the first chunk of a pool
FirstAddr == 4096

\* a layout is the chunks of a pool in address order: the slot that owns the chunk,
\* its byte size, and its distance from the end of the chunk before it (lead < 0:
\* the payloads overlap, as in a malformed pool)
RECURSIVE LayAddr(_, _)
LayAddr(lay, k) ==
    IF k = 1 THEN FirstAddr
    ELSE LayAddr(lay, k - 1) + lay[k - 1].size + lay[k].lead

RECURSIVE LayChunks(_, _, _, _)
LayChunks(lay, slot, k, seen) ==
    IF k > Len(lay) THEN <<>>
    ELSE IF lay[k].slot # slot THEN LayChunks(lay, slot, k + 1, seen)
    ELSE <<[Data |-> LayAddr(lay, k), Size |-> lay[k].size, DocumentOffset |-> seen,
            BitsPerDocument |-> IF lay[k].size < MinSizeInBytesToEvict THEN 8 ELSE 16]>>
         \o LayChunks(lay, slot, k + 1, seen + 1)

Layouts(slots, sizes, leads) ==
    UNION {{lay \in [1..n -> [slot : slots, size : sizes, lead : leads]] :
                n >= 1 => lay[1].lead = 0} : n \in 0..MaxChunks}

\* a pool of two real columns (column c is stored in local slot 1 - c) and at most
\* one string pseudo-column, in local slot 2, whose slot carries the type of the
\* identifier it holds
MkPool(documentCount, type0, type1, fake, hasStringColumns, dumpEmpty, ignored, lay) ==
    LET FakeSlot == 2
        slots == IF fake = "none" THEN 0..1 ELSE 0..FakeSlot
    IN [DocumentCount |-> documentCount,
        ColumnIndexToLocalIndex |-> [c \in 0..1 |-> 1 - c],
        Chunks |-> [s \in slots |-> LayChunks(lay, s, 1, 0)],
        ColumnTypes |-> [s \in slots |->
                            CASE s = 0 -> type0
                              [] s = 1 -> type1
                              [] OTHER -> CASE fake = "doc" -> "SampleId"
                                            [] fake = "group" -> "GroupId"
                                            [] OTHER -> "SubgroupId"],
        StringDocIdLocalIndex |-> IF fake = "doc" THEN FakeSlot ELSE NoIndex,
        StringGroupIdLocalIndex |-> IF fake = "group" THEN FakeSlot ELSE NoIndex,
        StringSubgroupIdLocalIndex |-> IF fake = "subgroup" THEN FakeSlot ELSE NoIndex,
        HasStringColumns |-> hasStringColumns,
        ColumnsDumpEmpty |-> dumpEmpty,
        IgnoredFlatIndices |-> ignored]

MkArgs(p, ignoredFeatures, pairs, groupWeights, baseline) ==
    [Pool |-> p, IgnoredFeatures |-> ignoredFeatures, PairsPath |-> pairs,
     GroupWeightsPath |-> groupWeights, BaselinePath |-> baseline]

\* loads that vary the column types, the string pseudo-columns and the storage
\* mode, over small contiguous chunks
TypeLoads ==
    {MkArgs(MkPool(Count(0, 3), type0, "Num", fake, hasStringColumns, dumpEmpty, <<>>, lay),
            <<>>, "uninited", "uninited", "uninited") :
        type0 \in EColumn, fake \in {"doc", "group", "subgroup"},
        hasStringColumns \in BOOLEAN, dumpEmpty \in BOOLEAN,
        lay \in Layouts(0..2, {12}, {0})}
    \cup
    {MkArgs(MkPool(Count(0, 3), type0, "Num", "none", FALSE, dumpEmpty, <<>>, lay),
            <<>>, "uninited", "uninited", "uninited") :
        type0 \in EColumn, dumpEmpty \in BOOLEAN,
        lay \in Layouts(0..1, {12}, {0})}

\* loads that vary the caller's and the pool's list of ignored features
IgnoreLoads ==
    {MkArgs(MkPool(Count(0, 3), type0, "Num", fake, TRUE, TRUE, ignored, lay),
            ignoredFeatures, "uninited", "uninited", "uninited") :
        type0 \in {"Num", "Categ", "Label"}, fake \in {"none", "group"},
        ignored \in {<<>>, <<1>>, <<0, 1>>}, ignoredFeatures \in {<<>>, <<0>>, <<1, 7>>},
        lay \in Layouts(0..1, {12}, {0})}

\* loads of a mapped pool that vary the sizes and the placement of the chunks
LayoutLoads ==
    {MkArgs(MkPool(Count(0, 3), "Num", "Label", "none", FALSE, TRUE, <<>>, lay),
            <<>>, "uninited", "uninited", "uninited") :
        lay \in Layouts(0..1, {12, MinSizeInBytesToEvict}, {-1, 0, 1})}

\* loads that vary what the constructor validates and the auxiliary files
Paths == {"uninited", "exists", "missing"}
ValidationLoads ==
    {MkArgs(MkPool(documentCount, type, type, "none", FALSE, TRUE, <<>>,
                   <<[slot |-> 0, size |-> 12, lead |-> 0]>>),
            <<>>, pairs, groupWeights, baseline) :
        documentCount \in {Count(0, 0), Count(0, 1), Count(65535, 65535), Count(65536, 0)}, type \in {"Num", "Label"},
        pairs \in Paths, groupWeights \in Paths, baseline \in Paths}

Loads == TypeLoads \cup IgnoreLoads \cup LayoutLoads \cup ValidationLoads

---------------------------------------------------------------------------
(* TCBQuantizedDataLoader: the constructor and the statements of Do *)

Init ==
    /\ args \in Loads
    /\ QuantizedPool = EmptyPool
    /\ pc = "new"
    /\ ObjectCount = Count(0, 0)
    /\ IsFeatureIgnored = <<>>
    /\ chunkRefs = <<>>
    /\ pos = 0
    /\ trace = <<>>
    /\ outcomes = <<>>
    /\ error = "none"
    /\ evictor = TSequentialChunkEvictor(MinSizeInBytesToEvict)
    /\ advised = <<>>
    /\ last = NoCall
    /\ hist = NoHist

\* a CB_ENSURE that fails, or a ythrow: the exception leaves the constructor or Do
FailThenFinish(message) ==
    /\ error' = message
    /\ pc' = "Finish"
Fail(message) ==
    /\ error' = message
    /\ pc' = "failed"

\* the constructor: load the pool, validate, build the ignored-feature mask
Construct ==
    /\ pc = "new"
    /\ QuantizedPool' = args.Pool
    /\ LET check == ConstructorCheck(args)
           mask == ProcessIgnoredFeaturesList(AllIgnoredFeatures(args),
                                              GetFeatureCount(args.Pool))
       IN IF check # "none"
          THEN Fail(check) /\ UNCHANGED <<ObjectCount, IsFeatureIgnored>>
          ELSE IF AllFeaturesIgnored(mask)
          THEN Fail("All features are requested to be ignored")
               /\ UNCHANGED <<ObjectCount, IsFeatureIgnored>>
          ELSE /\ ObjectCount' = CastUi32(args.Pool.DocumentCount)
               /\ IsFeatureIgnored' = mask
               /\ pc' = "Start"
               /\ UNCHANGED error
    /\ UNCHANGED <<args, chunkRefs, pos, trace, outcomes>>
    /\ UNCHANGED evictorVars

\* visitor->Start(DataMetaInfo, ObjectCount, ...)
Start ==
    /\ pc = "Start"
    /\ trace' = Append(trace, [Call("Start") EXCEPT !.elements = ObjectCount])
    /\ pc' = "Gather"
    /\ UNCHANGED <<args, QuantizedPool, ObjectCount, IsFeatureIgnored, chunkRefs, pos,
                   outcomes, error>>
    /\ UNCHANGED evictorVars

\* the index maps, chunkRefs = GatherAndSortChunks(QuantizedPool), the evictor
Gather ==
    /\ pc = "Gather"
    /\ chunkRefs' = GatherAndSortChunks(QuantizedPool)
    /\ evictor' = TSequentialChunkEvictor(MinSizeInBytesToEvict)
    /\ pos' = 1
    /\ pc' = "Loop"
    /\ UNCHANGED <<args, QuantizedPool, ObjectCount, IsFeatureIgnored, trace, outcomes,
                   error>>
    /\ UNCHANGED <<advised, last, hist>>

\* one iteration of the loop: the push (mapped pools only), the body, and the
\* deferred evictor.MaybeEvict(), which runs whenever the push returned
ProcessEntryEvictAtEnd ==
    /\ pc = "Loop"
    /\ pos <= Len(chunkRefs)
    /\ LET chunkRef == chunkRefs[pos]
           chunk == Deref(QuantizedPool, chunkRef.Description)
           mapped == QuantizedPool.ColumnsDumpEmpty
           pushed == IF mapped THEN Push(evictor, chunk.Data, chunk.Size)
                     ELSE [ev |-> evictor, failed |-> FALSE]
           body == ProcessChunkRef(QuantizedPool, IsFeatureIgnored, chunkRef)
           evicted == MaybeEvict(pushed.ev, FALSE)
       IN IF pushed.failed
          THEN /\ evictor' = pushed.ev
               /\ outcomes' = Append(outcomes,
                       [ref |-> chunkRef, mapped |-> mapped, kind |-> "pushFailed",
                        columnType |-> "-", calls |-> <<>>, thrown |-> TRUE])
               /\ Fail("Push")
               /\ UNCHANGED <<advised, trace, pos>>
          ELSE \E madviseOk \in BOOLEAN :
               /\ (evicted.issued /\ ~body.thrown) \/ madviseOk
               /\ evictor' = IF body.thrown THEN pushed.ev ELSE evicted.ev
               /\ advised' = IF evicted.issued /\ ~body.thrown
                             THEN Append(advised, Advice(pushed.ev, madviseOk))
                             ELSE advised
               /\ outcomes' = Append(outcomes,
                       [ref |-> chunkRef, mapped |-> mapped, kind |-> body.kind,
                        columnType |-> body.columnType, calls |-> body.calls,
                        thrown |-> body.thrown])
               /\ trace' = trace
                           \o (IF mapped THEN <<[Call("Push") EXCEPT !.Data = chunk.Data]>>
                               ELSE <<>>)
                           \o body.calls
                           \o (IF body.thrown THEN <<>>
                               ELSE <<[Call("MaybeEvict") EXCEPT
                                          !.issued = evicted.issued]>>)
               /\ IF body.thrown
                  THEN Fail(IF body.kind = "ensureFailed" THEN "Expected column type"
                            ELSE "Unexpected column type") /\ UNCHANGED pos
                  ELSE pos' = pos + 1 /\ UNCHANGED <<pc, error>>
    /\ UNCHANGED <<args, QuantizedPool, ObjectCount, IsFeatureIgnored, chunkRefs>>
    /\ UNCHANGED <<last, hist>>

ProcessEntry ==
    /\ pc = "Loop"
    /\ pos <= Len(chunkRefs)
    /\ LET chunkRef == chunkRefs[pos]
           chunk == Deref(QuantizedPool, chunkRef.Description)
           mapped == QuantizedPool.ColumnsDumpEmpty
           pushed == IF mapped THEN Push(evictor, chunk.Data, chunk.Size)
                     ELSE [ev |-> evictor, failed |-> FALSE]
           body == ProcessChunkRef(QuantizedPool, IsFeatureIgnored, chunkRef)
           evicted == MaybeEvict(pushed.ev, FALSE)
       IN IF pushed.failed
          THEN /\ evictor' = pushed.ev
               /\ outcomes' = Append(outcomes,
                       [ref |-> chunkRef, mapped |-> mapped, kind |-> "pushFailed",
                        columnType |-> "-", calls |-> <<>>, thrown |-> TRUE])
               /\ Fail("Push")
               /\ UNCHANGED <<advised, trace, pos>>
          ELSE \E madviseOk \in BOOLEAN :
               /\ evicted.issued \/ madviseOk
               /\ evictor' = evicted.ev
               /\ advised' = IF evicted.issued
                             THEN Append(advised, Advice(pushed.ev, madviseOk))
                             ELSE advised
               /\ outcomes' = Append(outcomes,
                       [ref |-> chunkRef, mapped |-> mapped, kind |-> body.kind,
                        columnType |-> body.columnType, calls |-> body.calls,
                        thrown |-> body.thrown])
               /\ trace' = trace
                           \o (IF mapped THEN <<[Call("Push") EXCEPT !.Data = chunk.Data]>>
                               ELSE <<>>)
                           \o body.calls
                           \o <<[Call("MaybeEvict") EXCEPT !.issued = evicted.issued]>>
               /\ IF body.thrown
                  THEN Fail(IF body.kind = "ensureFailed" THEN "Expected column type"
                            ELSE "Unexpected column type") /\ UNCHANGED pos
                  ELSE pos' = pos + 1 /\ UNCHANGED <<pc, error>>
    /\ UNCHANGED <<args, QuantizedPool, ObjectCount, IsFeatureIgnored, chunkRefs>>
    /\ UNCHANGED <<last, hist>>

\* evictor.MaybeEvict(true) after the loop
FinalFlushRethrowing ==
    /\ pc = "Loop"
    /\ pos > Len(chunkRefs)
    /\ LET evicted == MaybeEvict(evictor, TRUE)
       IN \E madviseOk \in BOOLEAN :
            /\ evicted.issued \/ madviseOk
            /\ evictor' = IF madviseOk THEN evicted.ev ELSE evictor
            /\ advised' = IF evicted.issued THEN Append(advised, Advice(evictor, madviseOk))
                          ELSE advised
            /\ trace' = Append(trace, [Call("MaybeEvictForce") EXCEPT
                                          !.issued = evicted.issued])
            /\ IF madviseOk THEN pc' = "Release" /\ UNCHANGED error
               ELSE Fail("MadviseEvict")
    /\ UNCHANGED <<args, QuantizedPool, ObjectCount, IsFeatureIgnored, chunkRefs, pos,
                   outcomes>>
    /\ UNCHANGED <<last, hist>>
FinalFlush ==
    /\ pc = "Loop"
    /\ pos > Len(chunkRefs)
    /\ LET evicted == MaybeEvict(evictor, TRUE)
       IN \E madviseOk \in BOOLEAN :
            /\ evicted.issued \/ madviseOk
            /\ evictor' = evicted.ev
            /\ advised' = IF evicted.issued THEN Append(advised, Advice(evictor, madviseOk))
                          ELSE advised
            /\ trace' = Append(trace, [Call("MaybeEvictForce") EXCEPT
                                          !.issued = evicted.issued])
    /\ pc' = "Release"
    /\ UNCHANGED <<args, QuantizedPool, ObjectCount, IsFeatureIgnored, chunkRefs, pos,
                   outcomes, error>>
    /\ UNCHANGED <<last, hist>>

\* QuantizedPool = TQuantizedPool(); // release memory
Release ==
    /\ pc = "Release"
    /\ QuantizedPool' = EmptyPool
    /\ trace' = Append(trace, Call("Release"))
    /\ pc' = "SetGroupWeights"
    /\ UNCHANGED <<args, ObjectCount, IsFeatureIgnored, chunkRefs, pos, outcomes, error>>
    /\ UNCHANGED evictorVars

\* SetGroupWeights / SetPairs / SetBaseline: nothing for a path that is not set,
\* else the file is read and forwarded to the visitor, or the read throws
SetAuxiliary(at, path, name, next) ==
    /\ pc = at
    /\ \/ /\ path = "uninited"
          /\ pc' = next
          /\ UNCHANGED <<trace, error>>
       \/ /\ path # "uninited"
          /\ trace' = Append(trace, Call(name))
          /\ pc' = next
          /\ UNCHANGED error
       \/ /\ path # "uninited"
          /\ Fail(name)
          /\ UNCHANGED trace
    /\ UNCHANGED <<args, QuantizedPool, ObjectCount, IsFeatureIgnored, chunkRefs, pos,
                   outcomes>>
    /\ UNCHANGED evictorVars

SetGroupWeights ==
    SetAuxiliary("SetGroupWeights", args.GroupWeightsPath, "SetGroupWeights", "SetPairs")

SetPairsThenFinish == SetAuxiliary("SetPairs", args.PairsPath, "SetPairs", "Finish")
SetPairs == SetAuxiliary("SetPairs", args.PairsPath, "SetPairs", "SetBaseline")

SetBaseline == SetAuxiliary("SetBaseline", args.BaselinePath, "SetBaseline", "Finish")

\* visitor->Finish()
Finish ==
    /\ pc = "Finish"
    /\ trace' = Append(trace, Call("Finish"))
    /\ pc' = "Done"
    /\ UNCHANGED <<args, QuantizedPool, ObjectCount, IsFeatureIgnored, chunkRefs, pos,
                   outcomes, error>>
    /\ UNCHANGED evictorVars

Next ==
    \/ Construct
    \/ Start
    \/ Gather
    \/ ProcessEntry
    \/ FinalFlush
    \/ Release
    \/ SetGroupWeights
    \/ SetPairs
    \/ SetBaseline
    \/ Finish

Spec == Init /\ [][Next]_vars

---------------------------------------------------------------------------
(* Claims about the evictor, checked under EvSpec *)

VisitedEnd(ev) == ev.Data_ + ev.Size_

\* C1: a push fails exactly when the chunk's address is below the visited end
\* (base + length) the call found; and as long as every pushed chunk starts at or
\* after the end of the chunk pushed before it, whatever MaybeEvict calls are
\* interleaved, no push has failed.
PushOrdering ==
    /\ last.op = "Push" => (last.failed <=> last.data < VisitedEnd(last.pre))
    /\ hist.disciplined => hist.pushFailures = 0

\* a third chunk pushed in order, after an advisory was issued on the way
PushOrderingWitness ==
    /\ last.op = "Push"
    /\ ~last.failed
    /\ last.pre.Evicted_
    /\ last.data = VisitedEnd(last.pre)
    /\ hist.disciplined
    /\ hist.pushes >= 3
    /\ Len(advised) >= 1

\* C2 (as claimed): MaybeEvict(false) issues the advisory iff the flag is clear and
\* the visited length has reached the threshold, and between two consecutive pushes
\* that returned, the MaybeEvict(false) calls issue at most one advisory.
EvictThreshold ==
    /\ (last.op = "MaybeEvict" /\ ~last.force) =>
          (last.issued <=> (/\ ~last.pre.Evicted_
                            /\ last.pre.Size_ >= last.pre.MinSizeInBytesToEvict_))
    /\ hist.betweenPushes <= 1

PushedAfterEviction == last.op = "Push" /\ ~last.failed /\ last.pre.Evicted_

\* the visited range does not reach below the end of the last advised span
ClearOfAdvised ==
    /\ advised # <<>>
    /\ evictor.Data_ >= advised[Len(advised)].Data + advised[Len(advised)].Size

\* C15 (as claimed): a push that returns and that found the flag set leaves the
\* base at the pushed chunk's address, and no byte of the span already advised is
\* in the new visited range.
PushAfterEvictionStartsAtChunk ==
    PushedAfterEviction => (evictor.Data_ = last.data /\ ClearOfAdvised)

\* C15 (amended): a push that returns and that found the flag set after an earlier
\* push leaves the base at the previous visited end, not at the chunk's address,
\* and the length at the gap up to the chunk plus the chunk's size, so the range
\* starts at the chunk only when there is no gap; if nothing was pushed before,
\* the range is the chunk's; either way no byte of the span already advised is in
\* the new visited range.
PushAfterEviction ==
    PushedAfterEviction =>
        /\ IF last.pre.Data_ = NullPtr
           THEN evictor.Data_ = last.data /\ evictor.Size_ = last.size
           ELSE /\ evictor.Data_ = last.pre.Data_ + last.pre.Size_
                /\ evictor.Size_ = (last.data - evictor.Data_) + last.size
                /\ evictor.Data_ = last.data <=> last.data = last.pre.Data_ + last.pre.Size_
        /\ ClearOfAdvised

\* a chunk pushed after an advisory, one byte beyond the visited end: the base is
\* the old end and the gap is part of the range
PushAfterEvictionWitness ==
    /\ PushedAfterEviction
    /\ last.pre.Data_ # NullPtr
    /\ last.pre.Size_ > 0
    /\ last.data > last.pre.Data_ + last.pre.Size_
    /\ evictor.Data_ < last.data
    /\ evictor.Size_ > last.size

\* C16: after a push that returned, the visited end (base + length) is the chunk's
\* address plus its size and the flag is clear; after the first push the visited
\* range is the chunk's range; after a later push that found the flag clear the
\* base is the one it found and the length has grown by the gap before the chunk
\* and the chunk's size.
VisitedRangeAfterPush ==
    (last.op = "Push" /\ ~last.failed) =>
        /\ VisitedEnd(evictor) = last.data + last.size
        /\ ~evictor.Evicted_
        /\ hist.pushes = 1 => (evictor.Data_ = last.data /\ evictor.Size_ = last.size)
        /\ (hist.pushes > 1 /\ ~last.pre.Evicted_) =>
              /\ evictor.Data_ = last.pre.Data_
              /\ evictor.Size_ =
                    last.pre.Size_ + (last.data - VisitedEnd(last.pre)) + last.size

\* a second chunk pushed with the flag clear, one byte beyond the first: the base
\* stays and the gap is part of the range
VisitedRangeAfterPushWitness ==
    /\ last.op = "Push"
    /\ ~last.failed
    /\ hist.pushes = 2
    /\ ~last.pre.Evicted_
    /\ last.data > VisitedEnd(last.pre)
    /\ evictor.Data_ = last.pre.Data_
    /\ evictor.Size_ > last.pre.Size_ + last.size

\* C19 (as claimed): over any sequence of Push and MaybeEvict calls, failed pushes
\* included, the advised ranges are in ascending address order and do not overlap
\* (each starts at or after the end of the one before), and none ends beyond the
\* visited end, which is the end of the last chunk whose push returned.
AdvisedRangesDisjoint ==
    /\ \A i, j \in DOMAIN advised :
          i < j => advised[i].Data + advised[i].Size <= advised[j].Data
    /\ \A i \in DOMAIN advised :
          advised[i].Data + advised[i].Size <= VisitedEnd(evictor)

\* C20 (as claimed): a push that fails its ordering check leaves the evictor as it
\* found it: the same base address, length, threshold and flag.
FailedPushLeavesEvictorUnchanged ==
    (last.op = "Push" /\ last.failed) => evictor = last.pre

---------------------------------------------------------------------------
(* Claims about the loader, checked under Spec *)

\* the positions of the trace that hold a call of the given names
At(names) == {i \in DOMAIN trace : trace[i].call \in names}

RealSlots(p) == {p.ColumnIndexToLocalIndex[c] : c \in DOMAIN p.ColumnIndexToLocalIndex}

PseudoSlots(p) == {FakeIndices(p)[i] : i \in DOMAIN FakeIndices(p)} \ {NoIndex}

Outcomes == {outcomes[i] : i \in DOMAIN outcomes}

\* C4 (as claimed): while the pool is fully in memory (its column dump is not
\* empty), no advisory is issued at any point of the load.
InMemoryNoAdvisory == ~args.Pool.ColumnsDumpEmpty => advised = <<>>

\* C5: the gathered sequence holds every chunk of every real column slot and of every
\* set string pseudo-slot exactly once, holds nothing else, labels each entry with
\* its slot (and its column, for a real slot), and is in non-decreasing order of
\* the chunks' start addresses.
GathererOutput ==
    pc = "Loop" =>
        LET p == args.Pool
            slots == RealSlots(p) \cup PseudoSlots(p)
            addr(i) == p.Chunks[chunkRefs[i].Description[1]][chunkRefs[i].Description[2]].Data
        IN /\ \A s \in slots : \A k \in 1..Len(p.Chunks[s]) :
                Cardinality({i \in DOMAIN chunkRefs :
                                chunkRefs[i].Description = <<s, k>>}) = 1
           /\ \A i \in DOMAIN chunkRefs :
                LET d == chunkRefs[i].Description
                IN /\ d[1] \in slots
                   /\ d[2] \in 1..Len(p.Chunks[d[1]])
                   /\ chunkRefs[i].LocalIndex = d[1]
                   /\ d[1] \in RealSlots(p) =>
                         p.ColumnIndexToLocalIndex[chunkRefs[i].ColumnIndex] = d[1]
           /\ \A i \in 1..(Len(chunkRefs) - 1) : addr(i) <= addr(i + 1)

\* a pseudo-slot chunk that lies below a real column's chunk: the sort moved it
GathererOutputWitness ==
    /\ pc = "Loop"
    /\ Len(chunkRefs) >= 2
    /\ chunkRefs[1].LocalIndex \in PseudoSlots(args.Pool)
    /\ chunkRefs[2].LocalIndex \in RealSlots(args.Pool)
    /\ chunkRefs # GatherColumns(args.Pool, DOMAIN args.Pool.ColumnIndexToLocalIndex)
                    \o GatherFake(args.Pool, 1)

\* the rank of a call in the order Do makes its calls in
Rank(call) ==
    CASE call = "Start" -> 0
      [] call = "MaybeEvictForce" -> 2
      [] call = "Release" -> 3
      [] call = "SetGroupWeights" -> 4
      [] call = "SetPairs" -> 5
      [] call = "SetBaseline" -> 6
      [] call = "Finish" -> 7
      [] OTHER -> 1

\* C6: Start is the first call and is made once; the calls of the loop (pushes,
\* parts, MaybeEvict()) all come before the forced flush, which comes before the
\* release of the pool, then the group weights, the pairs, the baseline and Finish,
\* each made at most once, so no part call follows the release; a load that
\* completes has made the forced flush, the release, every configured auxiliary
\* call, and Finish as its last call.
ProtocolOrder ==
    /\ \A i \in DOMAIN trace : trace[i].call = "Start" <=> i = 1
    /\ \A i, j \in DOMAIN trace :
          i < j => /\ Rank(trace[i].call) <= Rank(trace[j].call)
                   /\ Rank(trace[j].call) # 1 => Rank(trace[i].call) < Rank(trace[j].call)
    /\ pc = "Done" =>
          /\ trace[Len(trace)].call = "Finish"
          /\ At({"MaybeEvictForce"}) # {}
          /\ At({"Release"}) # {}
          /\ At({"SetGroupWeights"}) # {} <=> args.GroupWeightsPath # "uninited"
          /\ At({"SetPairs"}) # {} <=> args.PairsPath # "uninited"
          /\ At({"SetBaseline"}) # {} <=> args.BaselinePath # "uninited"

\* a completed load that delivered a part and all three auxiliary files
ProtocolOrderWitness ==
    /\ pc = "Done"
    /\ At(PartCalls) # {}
    /\ At({"SetGroupWeights"}) # {}
    /\ At({"SetPairs"}) # {}
    /\ At({"SetBaseline"}) # {}

\* C7: a load ends either completed, with Finish called once and no error raised,
\* or failed, with an error raised and Finish never called; the step that raises
\* the error delivers no part and does not call Finish, and nothing is called
\* after it.
AllOrNothing ==
    /\ [](/\ At({"Finish"}) # {} <=> pc = "Done"
          /\ Cardinality(At({"Finish"})) <= 1
          /\ error # "none" <=> pc = "failed"
          /\ pc = "failed" => ~ENABLED Next)
    /\ [][error' # "none" =>
            \A i \in DOMAIN trace' :
                i > Len(trace) => trace'[i].call \notin PartCalls \cup {"Finish"}]_vars

\* a load that fails after it has delivered a part
AllOrNothingWitness ==
    /\ pc = "failed"
    /\ error # "none"
    /\ At(PartCalls) # {}
    /\ At({"Finish"}) = {}

\* the feature indices a list names
Listed(list) == {list[i] : i \in DOMAIN list}

\* the flat feature index of the column of a gathered entry, if it has one
FlatIndexOf(p, ref) == FindPtr(GetColumnIndexToFlatIndexMap(p), ref.ColumnIndex)

\* C8: no AddFloatFeaturePart call carries a feature index that the caller's list or
\* the pool's list names, and an entry whose column resolves to such an index
\* causes no call at all.
IgnoredNeverDelivered ==
    LET ignored == Listed(args.IgnoredFeatures) \cup Listed(args.Pool.IgnoredFlatIndices)
    IN /\ \A i \in At({"AddFloatFeaturePart"}) : trace[i].flatFeatureIdx \notin ignored
       /\ \A o \in Outcomes :
            (/\ o.kind \in {"ignored", "AddChunk"}
             /\ FlatIndexOf(args.Pool, o.ref) # <<>>
             /\ FlatIndexOf(args.Pool, o.ref)[1] \in ignored) =>
                /\ o.kind = "ignored"
                /\ o.calls = <<>>

\* a feature that only the pool's list names was skipped, another was delivered
IgnoredNeverDeliveredWitness ==
    /\ args.IgnoredFeatures = <<>>
    /\ \E o \in Outcomes : o.kind = "ignored" /\ o.columnType = "Num"
    /\ At({"AddFloatFeaturePart"}) # {}

\* the seven column types AddChunk delivers
Dispatchable == {"Num", "Label", "Baseline", "Weight", "GroupWeight", "GroupId",
                 "SubgroupId"}

\* C9 (as claimed): AddChunk is only invoked with one of the seven dispatchable
\* types, and an entry that is not skipped as a string or document-id column and
\* has any other type fails the type assertion.
OnlySevenReachDispatcher ==
    \A o \in Outcomes :
        /\ o.kind = "AddChunk" => o.columnType \in Dispatchable
        /\ (o.kind \in {"ensureFailed", "ignored", "AddChunk"}
            /\ o.columnType \notin Dispatchable) => o.kind = "ensureFailed"

\* C9 (amended): AddChunk is only invoked with one of the seven dispatchable types
\* or Categ, and makes a visitor call exactly for the seven; an entry that is not
\* skipped as a string or document-id column and has a type outside these eight
\* fails the type assertion, with no visitor call; a Categ entry passes the type
\* assertion and is then either skipped as an ignored feature or rejected inside
\* AddChunk with an unexpected-column-type error, with no visitor call.
DispatcherTypes ==
    \A i \in DOMAIN outcomes :
        LET o == outcomes[i]
        IN /\ o.kind = "AddChunk" => o.columnType \in Dispatchable \cup {"Categ"}
           /\ o.kind = "AddChunk" => (Len(o.calls) = 1 <=> o.columnType \in Dispatchable)
           /\ o.kind # "AddChunk" => o.calls = <<>>
           /\ (o.kind \in {"ensureFailed", "ignored", "AddChunk"}
               /\ o.columnType \notin Dispatchable \cup {"Categ"}) =>
                  /\ o.kind = "ensureFailed"
                  /\ error = "Expected column type"
                  /\ i = Len(outcomes)
           /\ o.columnType = "Categ" =>
                  /\ o.kind \in {"ignored", "AddChunk"}
                  /\ o.calls = <<>>
                  /\ o.kind = "AddChunk" =>
                        /\ error = "Unexpected column type"
                        /\ i = Len(outcomes)

\* a Categ chunk reached AddChunk, which threw, after a Num chunk was delivered
DispatcherTypesWitness ==
    /\ Len(outcomes) = 2
    /\ outcomes[1].kind = "AddChunk"
    /\ outcomes[1].columnType = "Num"
    /\ outcomes[2].kind = "AddChunk"
    /\ outcomes[2].columnType = "Categ"
    /\ error = "Unexpected column type"

\* C10 (as claimed): an entry that got past the push and whose slot is a set string
\* pseudo-slot, or whose type is the legacy document-id type, is skipped: no
\* visitor call and no error, whatever the pool's HasStringColumns.
PseudoSlotsAlwaysSkipped ==
    \A o \in Outcomes :
        (/\ o.kind # "pushFailed"
         /\ \/ o.ref.LocalIndex \in PseudoSlots(args.Pool)
            \/ args.Pool.ColumnTypes[o.ref.LocalIndex] = "SampleId") =>
            /\ o.kind # "AddChunk"
            /\ o.calls = <<>>
            /\ ~o.thrown

\* the errors the CB_ENSUREs of the constructor raise
ValidationErrors ==
    {"Pool is empty", "too many objects", "PairsFilePath does not exist",
     "GroupWeightsFilePath does not exist", "BaselineFilePath does not exist",
     "Pool should have at least one factor"}

\* C11: the constructor fails on one of its own checks exactly when the pool's
\* document count is 0 or is 2^32 or more, or a configured pairs, group-weights or
\* baseline path does not exist, or the pool has no feature column; a constructor
\* that fails (on these or on the ignored-features check) is followed by no visitor
\* call; otherwise the object count equals the document count and is what Start
\* is given.
EagerValidation ==
    LET p == args.Pool
        rejected ==
            \/ p.DocumentCount = Count(0, 0)
            \/ p.DocumentCount.hi >= 65536
            \/ "missing" \in {args.PairsPath, args.GroupWeightsPath, args.BaselinePath}
            \/ \A c \in DOMAIN p.ColumnIndexToLocalIndex :
                  p.ColumnTypes[p.ColumnIndexToLocalIndex[c]] \notin {"Num", "Categ"}
        allIgnored == error = "All features are requested to be ignored"
    IN pc # "new" =>
          /\ rejected <=> error \in ValidationErrors
          /\ (error \in ValidationErrors \/ allIgnored) => (pc = "failed" /\ trace = <<>>)
          /\ (~rejected /\ ~allIgnored) =>
                /\ ObjectCount = p.DocumentCount
                /\ trace # <<>> =>
                      /\ trace[1].call = "Start"
                      /\ trace[1].elements = p.DocumentCount

\* a pool of 2^32 - 1 documents with a baseline path that does not exist: refused
\* for the path, before any visitor call
EagerValidationWitness ==
    /\ args.Pool.DocumentCount = Count(65535, 65535)
    /\ args.PairsPath = "exists"
    /\ args.BaselinePath = "missing"
    /\ error = "BaselineFilePath does not exist"
    /\ pc = "failed"
    /\ trace = <<>>

\* the part calls made for the chunk stored at position k of slot s
PartsOf(p, s, k) == {i \in At(PartCalls) : trace[i].Data = p.Chunks[s][k].Data}

\* the chunk at slot s belongs to a real column of a dispatchable type whose
\* feature, if it is one, is named by neither list of ignored features
Deliverable(p, s) ==
    /\ s \in RealSlots(p)
    /\ p.ColumnTypes[s] \in Dispatchable
    /\ \A c \in DOMAIN p.ColumnIndexToLocalIndex :
          (p.ColumnIndexToLocalIndex[c] = s /\ c \in DOMAIN GetColumnIndexToFlatIndexMap(p)) =>
              GetColumnIndexToFlatIndexMap(p)[c] \notin
                  Listed(args.IgnoredFeatures) \cup Listed(p.IgnoredFlatIndices)

\* C12 (as claimed): in a load that completed, every chunk of a real column of a
\* dispatchable type whose feature is not ignored has exactly one part call, every
\* other chunk has none, and the part calls are in ascending order of the chunks'
\* start addresses.
ExactlyOnceInAddressOrder ==
    pc = "Done" =>
        LET p == args.Pool
        IN /\ \A s \in DOMAIN p.Chunks : \A k \in 1..Len(p.Chunks[s]) :
                Cardinality(PartsOf(p, s, k)) = IF Deliverable(p, s) THEN 1 ELSE 0
           /\ \A i, j \in At(PartCalls) : i < j => trace[i].Data < trace[j].Data

\* the visitor call that delivers a column type
PartName(columnType) ==
    CASE columnType = "Num" -> "AddFloatFeaturePart"
      [] columnType = "Label" -> "AddTargetPart"
      [] columnType = "Baseline" -> "AddBaselinePart"
      [] columnType = "Weight" -> "AddWeightPart"
      [] columnType = "GroupWeight" -> "AddGroupWeightPart"
      [] columnType = "GroupId" -> "AddGroupIdPart"
      [] columnType = "SubgroupId" -> "AddSubgroupIdPart"
      [] OTHER -> "-"

\* the bytes of one element of the part of a column type
ElementBytes(columnType) ==
    CASE columnType = "Num" -> 1
      [] columnType \in {"Baseline", "GroupId"} -> 8
      [] OTHER -> 4

\* the invocation of AddChunk recorded in o made exactly the one call the table
\* gives for its column type, from the entry alone
DispatchedAsTabled(o) ==
    LET p == args.Pool
        chunk == p.Chunks[o.ref.Description[1]][o.ref.Description[2]]
        baselines == GetColumnIndexToBaselineIndexMap(p)
    IN /\ ~o.thrown
       /\ Len(o.calls) = 1
       /\ o.calls[1].call = PartName(o.columnType)
       /\ o.calls[1].call \in PartCalls
       /\ o.calls[1].objectOffset = chunk.DocumentOffset
       /\ o.calls[1].Data = chunk.Data
       /\ o.calls[1].elements = chunk.Size \div ElementBytes(o.columnType)
       /\ IF o.columnType = "Num"
          THEN /\ o.calls[1].flatFeatureIdx = FlatIndexOf(p, o.ref)[1]
               /\ o.calls[1].bitsPerDocument = chunk.BitsPerDocument
          ELSE /\ o.calls[1].flatFeatureIdx = -1
               /\ o.calls[1].bitsPerDocument = -1
       /\ IF o.columnType = "Baseline"
          THEN o.calls[1].baselineIdx = baselines[o.ref.ColumnIndex]
          ELSE o.calls[1].baselineIdx = -1

\* C13 (as claimed): every invocation of AddChunk makes exactly one visitor call,
\* the one the table gives for the column type, with the chunk's document offset
\* (and, for Baseline, Size div 8 elements).
EveryDispatchMakesOneCall ==
    \A o \in Outcomes : o.kind = "AddChunk" => DispatchedAsTabled(o)

\* C13 (amended): an invocation of AddChunk with one of the seven dispatchable
\* types makes exactly one visitor call, the one the table gives for the type, with
\* the chunk's document offset, the resolved feature index and bits-per-document
\* for Num, the resolved class index and Size div 8 elements for Baseline, whatever
\* was dispatched before; an invocation with any other type (Categ reaches AddChunk)
\* makes no visitor call and throws; the part calls of the load are exactly those
\* of its invocations.
DispatchTable ==
    /\ \A o \in Outcomes :
          o.kind = "AddChunk" =>
              IF o.columnType \in Dispatchable THEN DispatchedAsTabled(o)
              ELSE o.thrown /\ o.calls = <<>>
    /\ Cardinality(At(PartCalls)) =
          Cardinality({i \in DOMAIN outcomes : outcomes[i].calls # <<>>})

\* a Baseline chunk of 12 bytes delivered as one element for class 0, after a Num
\* chunk was delivered
DispatchTableWitness ==
    /\ Len(outcomes) = 2
    /\ outcomes[1].columnType = "Num"
    /\ Len(outcomes[1].calls) = 1
    /\ outcomes[2].columnType = "Baseline"
    /\ Len(outcomes[2].calls) = 1
    /\ outcomes[2].calls[1].call = "AddBaselinePart"
    /\ outcomes[2].calls[1].elements = 1
    /\ outcomes[2].calls[1].baselineIdx = 0
    /\ args.Pool.Chunks[outcomes[2].ref.Description[1]][outcomes[2].ref.Description[2]].Size = 12

\* the calls Do made on the evictor inside the loop, in order
EvictorSteps == SelectSeq(trace, LAMBDA c : c.call \in {"Push", "MaybeEvict"})

\* C14: for a mapped pool, every entry whose push returned has its Push followed by
\* exactly one MaybeEvict() before the next entry's Push, whether the entry was
\* delivered, skipped or made the body throw; a part call lies between the Push
\* and the MaybeEvict() of its entry; an entry whose push throws is the last one,
\* and the load has failed on it.
PushThenEvict ==
    args.Pool.ColumnsDumpEmpty =>
        /\ Len(EvictorSteps) =
              2 * Cardinality({i \in DOMAIN outcomes : outcomes[i].kind # "pushFailed"})
        /\ \A i \in DOMAIN outcomes :
              IF outcomes[i].kind = "pushFailed"
              THEN i = Len(outcomes) /\ pc = "failed" /\ error = "Push"
              ELSE /\ EvictorSteps[2 * i - 1].call = "Push"
                   /\ EvictorSteps[2 * i - 1].Data =
                         args.Pool.Chunks[outcomes[i].ref.Description[1]]
                                         [outcomes[i].ref.Description[2]].Data
                   /\ EvictorSteps[2 * i].call = "MaybeEvict"
        /\ \A j \in At(PartCalls) :
              /\ trace[j - 1].call = "Push"
              /\ trace[j - 1].Data = trace[j].Data
              /\ trace[j + 1].call = "MaybeEvict"

\* a mapped pool whose first entry was skipped and whose second made the body
\* throw: both were pushed and both were followed by their MaybeEvict()
PushThenEvictWitness ==
    /\ args.Pool.ColumnsDumpEmpty
    /\ Len(outcomes) = 2
    /\ outcomes[1].kind \in {"string", "sampleId", "ignored"}
    /\ outcomes[2].kind \in {"ensureFailed", "AddChunk"}
    /\ outcomes[2].thrown
    /\ pc = "failed"
    /\ Len(EvictorSteps) = 4
    /\ trace[Len(trace)].call = "MaybeEvict"

\* this step made a MadviseEvict call that threw
AdvisoryFailed ==
    /\ Len(advised') = Len(advised) + 1
    /\ ~advised'[Len(advised')].ok

\* C17: a step in which the MadviseEvict call of MaybeEvict throws raises no error
\* of its own, leaves the flag set and the visited range as it was advised, and
\* goes on as a step whose advisory returned: in the loop to the next entry (or to
\* the failure the body of the entry raised), after the loop to the release of
\* the pool.
AdvisoryFailureSwallowed ==
    [][AdvisoryFailed =>
          /\ evictor'.Evicted_
          /\ evictor'.Data_ = advised'[Len(advised')].Data
          /\ evictor'.Size_ = advised'[Len(advised')].Size
          /\ evictor'.MinSizeInBytesToEvict_ = evictor.MinSizeInBytesToEvict_
          /\ IF pos <= Len(chunkRefs)
             THEN /\ Len(outcomes') = Len(outcomes) + 1
                  /\ trace'[Len(trace')].call = "MaybeEvict"
                  /\ IF outcomes'[Len(outcomes')].thrown
                     THEN /\ pc' = "failed"
                          /\ error' \in {"Expected column type", "Unexpected column type"}
                     ELSE pc' = "Loop" /\ pos' = pos + 1 /\ error' = "none"
             ELSE pc' = "Release" /\ pos' = pos /\ error' = "none"]_vars

\* a load that completed although the advisory after its first, 16 MiB entry
\* failed: the second entry was delivered and the forced flush advised the rest
AdvisoryFailureSwallowedWitness ==
    /\ pc = "Done"
    /\ Len(advised) = 2
    /\ ~advised[1].ok
    /\ advised[1].Size >= MinSizeInBytesToEvict
    /\ advised[2].Data = advised[1].Data + advised[1].Size
    /\ Cardinality(At(PartCalls)) = 2

\* C18: for a mapped pool, between two iterations of the loop (the deferred
\* MaybeEvict() has run) the flag is set or the visited length is below 16 MiB; and
\* the visited length an iteration reaches with its push, which is the span not
\* yet advised, is at most 16 MiB plus the gap before the chunk plus the chunk's
\* size, however many chunks came before.
BoundedUnreleasedSpan ==
    /\ []((pc = "Loop" /\ args.Pool.ColumnsDumpEmpty) =>
             (evictor.Evicted_ \/ evictor.Size_ < MinSizeInBytesToEvict))
    /\ [][(pc = "Loop" /\ pos <= Len(chunkRefs) /\ QuantizedPool.ColumnsDumpEmpty) =>
             LET chunk == Deref(QuantizedPool, chunkRefs[pos].Description)
                 pushed == Push(evictor, chunk.Data, chunk.Size)
                 gap == IF evictor.Data_ = NullPtr THEN 0
                        ELSE chunk.Data - (evictor.Data_ + evictor.Size_)
             IN ~pushed.failed =>
                   /\ pushed.ev.Size_ <= MinSizeInBytesToEvict + gap + chunk.Size
                   /\ evictor'.Size_ = pushed.ev.Size_]_vars

\* two entries in: the first, small, was not advised; the second, 16 MiB and one
\* byte beyond it, took the span over the threshold and the flag is set
BoundedUnreleasedSpanWitness ==
    /\ pc = "Loop"
    /\ args.Pool.ColumnsDumpEmpty
    /\ pos = 3
    /\ evictor.Evicted_
    /\ evictor.Size_ = 12 + 1 + MinSizeInBytesToEvict
    /\ Len(advised) = 1
    /\ advised[1].Size = evictor.Size_

====
